---- MODULE Spec2Model ----
(***************************************************************************)
(* scopeview: the periodic handler redraw_timer_handler polls an Instek    *)
(* GDS-820C over a tty with acquire_scope_buffer and unpacks the 4 bit     *)
(* screen dump into an RGB raster.                                         *)
(*                                                                         *)
(* The frame geometry is scaled down: the source's 320 scan lines of 128   *)
(* bytes (120 of them data, 8 padding) become INPUT_WIDTH scan lines of    *)
(* RASTER_PITCH bytes (DATA_ROWS of them data, PAD_ROWS padding), the 64   *)
(* byte read chunk becomes TEMP_BUFFER_SIZE and the 200000 us select       *)
(* timeout becomes RX_TIMEOUT time units.  The relations between the       *)
(* numbers are those of the source: SCREEN_DUMP_SIZE = pitch * width,      *)
(* raster height = 2 * data rows.                                          *)
(***************************************************************************)
EXTENDS Integers, Sequences, FiniteSets, TLC

\* ------------------------------------------------------------------ bounds
INPUT_WIDTH == 2
DATA_ROWS == 2
TEMP_BUFFER_SIZE == 2
RX_TIMEOUT == 1
MaxBacklog == 1
MaxReqs == 2

\* ------------------------------------------------------- program constants
PAD_ROWS == 1
COLOR_THEME_COUNT == 3
GDK_KEY_space == 32
GDK_KEY_a == 97

RASTER_PITCH == DATA_ROWS + PAD_ROWS
OUT_HEIGHT == 2 * DATA_ROWS
SCREEN_DUMP_SIZE == RASTER_PITCH * INPUT_WIDTH
RasterBytes == INPUT_WIDTH * OUT_HEIGHT * 3

msg == <<87, 0, 0, 10>>

colors_light ==
  << <<85, 86, 80>>,    <<249, 248, 245>>, <<249, 38, 114>>,  <<128, 0, 128>>,
     <<70, 169, 223>>,  <<128, 0, 128>>,   <<134, 210, 30>>,  <<85, 86, 80>>,
     <<165, 161, 174>>, <<128, 0, 128>>,   <<248, 248, 242>>, <<248, 248, 242>>,
     <<128, 0, 128>>,   <<128, 0, 128>>,   <<244, 191, 53>>,  <<249, 248, 245>> >>

colors_dark ==
  << <<29, 28, 26>>,    <<29, 28, 26>>,    <<215, 153, 33>>,  <<128, 0, 128>>,
     <<69, 133, 136>>,  <<128, 0, 128>>,   <<184, 187, 38>>,  <<168, 153, 132>>,
     <<146, 131, 116>>, <<128, 0, 128>>,   <<50, 48, 47>>,    <<168, 153, 132>>,
     <<128, 0, 128>>,   <<128, 0, 128>>,   <<251, 73, 52>>,   <<235, 219, 178>> >>

colors_mono ==
  << <<0, 0, 0>>,       <<255, 255, 255>>, <<0, 0, 0>>,       <<255, 255, 255>>,
     <<0, 0, 0>>,       <<255, 255, 255>>, <<0, 0, 0>>,       <<0, 0, 0>>,
     <<0, 0, 0>>,       <<255, 255, 255>>, <<255, 255, 255>>, <<255, 255, 255>>,
     <<255, 255, 255>>, <<255, 255, 255>>, <<0, 0, 0>>,       <<255, 255, 255>> >>

\* color_themes[t][n]: C indices are 0 based, sequences 1 based
color_themes == <<colors_dark, colors_light, colors_mono>>

Palette(t, n) == color_themes[t + 1][n + 1]

Min(a, b) == IF a < b THEN a ELSE b

VARIABLES
  pc,            \* position of the single GTK thread
  timer,         \* the g_timeout_add source is installed
  theme,         \* static int theme
  win,           \* <<win_w, win_h>>
  buffer,        \* uint8_t buffer[SCREEN_DUMP_SIZE], each byte with its origin
  scope_pixels,  \* pixel bytes of pixbuf_scope
  image,         \* what image_scope shows: the last scaled pixbuf
  byte_cnt,      \* decode loop counter
  timeout,       \* global struct timeval timeout, in time units
  fd_in_set,     \* console_fd is a member of the global fd_set
  total,         \* acquire_scope_buffer: int total
  buffer_index,  \* acquire_scope_buffer: buffer_index - buffer
  retval,        \* value acquire_scope_buffer returned to the running handler (-1: none)
  branch,        \* the return statement that call left through
  rxq,           \* bytes received by the tty and not yet read
  txq,           \* bytes the device has still to send
  reqs,          \* history: write() calls of the current acquisition
  written,       \* history: buffer offsets memcpy wrote in the current acquisition
  call,          \* history: facts about the current acquisition
  writes,        \* history: raster offsets of the pixels stored in the current pass
  before         \* history: the raster as the current pass found it

vars == <<pc, timer, theme, win, buffer, scope_pixels, image, byte_cnt, timeout,
          fd_in_set, total, buffer_index, retval, branch, rxq, txq, reqs,
          written, call, writes, before>>

\* ------------------------------------------------------------- environment
\* The oscilloscope and the tty.  A response to a capture request is a run of
\* bytes; each byte carries, besides its value v, where it comes from: its
\* offset k in its response and whether that response answers the most recent
\* request written (cur).
Seeds == {165}
RespLens == {0, SCREEN_DUMP_SIZE, SCREEN_DUMP_SIZE + 1}
Keys == {GDK_KEY_space, GDK_KEY_a}
WinSizes == {<<640, 480>>}
Fills == {0, 238}

FrameByte(s, k) == s

Response(s, len) ==
  [j \in 1..len |-> [v |-> FrameByte(s, j - 1), cur |-> TRUE, k |-> j - 1]]

\* once the tick that asked for them is over, bytes are stale bytes: they
\* answer no request of a later tick, and their offset no longer matters
Age(q) == [j \in DOMAIN q |-> [v |-> q[j].v, cur |-> FALSE, k |-> 0]]

Drop(q, n) == SubSeq(q, n + 1, Len(q))

AcqPcs == {"write", "select", "read"}

\* ------------------------------------------------------------------- state
NoCall == [startEmpty |-> TRUE, respLen |-> 0, respSeed |-> 0, ioFail |-> FALSE,
           changed |-> FALSE]

Init ==
  /\ pc = "idle"
  /\ timer = TRUE
  /\ theme = 0
  /\ win = <<0, 0>>
  /\ buffer = [i \in 0..(SCREEN_DUMP_SIZE - 1) |-> [v |-> 0, cur |-> FALSE, k |-> 0]]
  /\ scope_pixels = [o \in 0..(RasterBytes - 1) |-> 0]
  /\ image = <<>>
  /\ byte_cnt = 0
  /\ timeout = 0
  /\ fd_in_set = FALSE
  /\ total = 0
  /\ buffer_index = 0
  /\ retval = -1
  /\ branch = "none"
  /\ rxq = <<>>
  /\ txq = <<>>
  /\ reqs = <<>>
  /\ written = {}
  /\ call = NoCall
  /\ writes = <<>>
  /\ before = <<>>

\* a main loop that dispatches callbacks while another one is still running
MainLoopReentrant == TRUE

\* The GTK main loop dispatches a callback only when no other callback runs.
MainLoopIdle == pc = "idle"

\* redraw_timer_handler returns keep to the main loop: the locals of the call
\* are gone, the tick is over, and the source stays installed iff keep
HandlerReturn(keep) ==
  /\ pc' = "idle"
  /\ timer' = keep
  /\ total' = 0
  /\ buffer_index' = 0
  /\ retval' = -1
  /\ branch' = "none"
  /\ buffer' = Age(buffer)
  /\ rxq' = Age(rxq)
  /\ txq' = Age(txq)
  /\ reqs' = <<>>
  /\ written' = {}
  /\ call' = NoCall
  /\ writes' = <<>>
  /\ before' = <<>>

\* ------------------------------------------------------ acquire_scope_buffer
Return(v, b) ==
  /\ pc' = "ret"
  /\ retval' = v
  /\ branch' = b

\* redraw_timer_handler is dispatched and calls acquire_scope_buffer, which
\* runs up to its write()
TimerTick ==
  /\ MainLoopIdle
  /\ timer
  /\ pc' = "write"
  /\ total' = 0
  /\ buffer_index' = 0
  /\ timeout' = RX_TIMEOUT
  /\ fd_in_set' = TRUE
  /\ call' = [NoCall EXCEPT !.startEmpty = (rxq = <<>> /\ txq = <<>>)]
  /\ UNCHANGED <<timer, theme, win, buffer, scope_pixels, image, byte_cnt,
                 retval, branch, rxq, txq, reqs, written,
                 writes, before>>

\* write(console_fd, &msg, 4): the result is not looked at.  A request that
\* reaches the device is answered with a response of len bytes (0: no answer).
WriteRequest ==
  /\ pc = "write"
  /\ reqs' = IF Len(reqs) < MaxReqs THEN Append(reqs, msg) ELSE reqs
  /\ \/ /\ call' = [call EXCEPT !.ioFail = TRUE]
        /\ UNCHANGED txq
     \/ \E len \in RespLens, s \in Seeds :
          /\ len > 0 => Len(rxq) + Len(txq) + len <= SCREEN_DUMP_SIZE + MaxBacklog
          /\ txq' = txq \o Response(s, len)
          /\ call' = [call EXCEPT !.respLen = len,
                                  !.respSeed = IF len > 0 THEN s ELSE 0]
  /\ pc' = "select"
  /\ UNCHANGED <<timer, theme, win, buffer, scope_pixels, image, byte_cnt,
                 timeout, fd_in_set, total, buffer_index, retval, branch, rxq,
                 written,
                 writes, before>>

\* select() returns -1
SelectError ==
  /\ pc = "select"
  /\ Return(1, "select_error")
  /\ call' = [call EXCEPT !.ioFail = TRUE]
  /\ UNCHANGED <<timer, theme, win, buffer, scope_pixels, image, byte_cnt,
                 timeout, fd_in_set, total, buffer_index, rxq, txq, reqs, written,
                 writes, before>>

\* the retry variant: a timeout sends the request again and starts over
SelectTimeoutResend ==
  /\ pc = "select"
  /\ rxq = <<>>
  /\ pc' = "write"
  /\ total' = 0
  /\ buffer_index' = 0
  /\ timeout' = RX_TIMEOUT
  /\ written' = {}
  /\ UNCHANGED <<timer, theme, win, buffer, scope_pixels, image, byte_cnt,
                 fd_in_set, retval, branch, rxq, txq, reqs, call,
                 writes, before>>

\* select() returns 0: nothing became readable before the timeout ran out
SelectTimeout ==
  /\ pc = "select"
  /\ rxq = <<>>
  /\ Return(1, "timeout")
  /\ timeout' = 0
  /\ fd_in_set' = FALSE
  /\ UNCHANGED <<timer, theme, win, buffer, scope_pixels, image, byte_cnt,
                 total, buffer_index, rxq, txq, reqs, written, call,
                 writes, before>>

\* select() returns > 0 after d time units, during which n more bytes came in
\* (n = 0 with an empty queue: readable because of a hangup or an error
\* condition).  Linux leaves the time not slept in the timeval.
SelectReadable ==
  /\ pc = "select"
  /\ fd_in_set
  /\ \E n \in 0..Len(txq), d \in 0..timeout :
       /\ rxq # <<>> => d = 0
       /\ rxq' = rxq \o SubSeq(txq, 1, n)
       /\ txq' = Drop(txq, n)
       /\ timeout' = timeout - d
  /\ pc' = "read"
  /\ UNCHANGED <<timer, theme, win, buffer, scope_pixels, image, byte_cnt,
                 fd_in_set, total, buffer_index, retval, branch, reqs, written,
                 call,
                 writes, before>>

\* a memcpy whose destination is never advanced
CopyChunkAtStart(buf, at, chunk) ==
  [i \in DOMAIN buf |-> IF i < Len(chunk) THEN chunk[i + 1] ELSE buf[i]]

\* memcpy(buffer_index, &temp_buffer, rval)
CopyChunk(buf, at, chunk) ==
  [i \in DOMAIN buf |->
     IF at <= i /\ i < at + Len(chunk) THEN chunk[i - at + 1] ELSE buf[i]]

\* a loop that copies as much of the last chunk as still fits
ReadDataTruncating(n) ==
  LET chunk == SubSeq(rxq, 1, n)
      t == total + n
      fit == Min(n, SCREEN_DUMP_SIZE - buffer_index)
  IN /\ rxq' = Drop(rxq, n)
     /\ total' = t
     /\ buffer' = CopyChunk(buffer, buffer_index, SubSeq(chunk, 1, fit))
     /\ call' = [call EXCEPT !.changed =
                   @ \/ \E i \in DOMAIN buffer : buffer'[i].v # buffer[i].v]
     /\ buffer_index' = buffer_index + fit
     /\ written' = written \cup (buffer_index..(buffer_index + fit - 1))
     /\ IF t <= SCREEN_DUMP_SIZE
          THEN IF t = SCREEN_DUMP_SIZE
                 THEN Return(0, "exact")
                 ELSE pc' = "select" /\ UNCHANGED <<retval, branch>>
          ELSE Return(1, "overflow")

\* read() returned rval = n > 0
ReadData(n) ==
  LET chunk == SubSeq(rxq, 1, n)
      t == total + n
  IN /\ rxq' = Drop(rxq, n)
     /\ total' = t
     /\ IF t <= SCREEN_DUMP_SIZE
          THEN /\ buffer' = CopyChunk(buffer, buffer_index, chunk)
               /\ call' = [call EXCEPT !.changed =
                             @ \/ \E i \in DOMAIN buffer : buffer'[i].v # buffer[i].v]
               /\ buffer_index' = buffer_index + n
               /\ written' = written \cup (buffer_index..(buffer_index + n - 1))
               /\ IF t = SCREEN_DUMP_SIZE
                    THEN Return(0, "exact")
                    ELSE pc' = "select" /\ UNCHANGED <<retval, branch>>
          ELSE /\ Return(1, "overflow")
               /\ UNCHANGED <<buffer, buffer_index, written, call>>

\* read() returned 0 or -1: the loop goes round again
ReadNothing(rval) ==
  /\ rval = 0 => rxq = <<>>
  /\ call' = IF rval < 0 THEN [call EXCEPT !.ioFail = TRUE] ELSE call
  /\ pc' = "select"
  /\ UNCHANGED <<buffer, buffer_index, written, total, rxq, retval, branch>>

Read ==
  /\ pc = "read"
  /\ \/ \E n \in 1..Min(TEMP_BUFFER_SIZE, Len(rxq)) : ReadData(n)
     \/ \E rval \in {0, -1} : ReadNothing(rval)
  /\ UNCHANGED <<timer, theme, win, scope_pixels, image, byte_cnt, timeout,
                 fd_in_set, txq, reqs,
                 writes, before>>

\* ----------------------------------------------------- redraw_timer_handler
\* a handler that does not look at the result of the acquisition
AcquireFailedIgnored == FALSE

\* the condition of: if (acquire_scope_buffer(buffer))
AcquireFailed == retval # 0

\* a handler that gives up its timer when an acquisition fails
ReturnOnFailureFalse == FALSE

\* the value of: return TRUE, after a failed acquisition
ReturnOnFailure == TRUE

\* if (acquire_scope_buffer(buffer)) { return TRUE; }  then the decode loop
AfterAcquire ==
  /\ pc = "ret"
  /\ IF AcquireFailed
       THEN HandlerReturn(ReturnOnFailure) /\ UNCHANGED byte_cnt
       ELSE /\ pc' = "decode"
            /\ byte_cnt' = 0
            /\ writes' = <<>>
            /\ before' = scope_pixels
            /\ UNCHANGED <<timer, total, buffer_index, retval, branch, buffer,
                           rxq, txq, reqs, written, call>>
  /\ UNCHANGED <<theme, win, scope_pixels, image, timeout, fd_in_set>>

\* the shift forgotten
HighNibbleNoShift(b) == b % 16

HighNibble(b) == (b \div 16) % 16
LowNibble(b) == b % 16

\* offset of pixel (row, col) in the row-major RGB raster
PixelOffset(out_row, col) == (INPUT_WIDTH * 3 * out_row) + (3 * col)

\* a store that leaves the third byte of the pixel alone
PutPixelNoBlue(px, off, rgb) ==
  [o \in DOMAIN px |->
     IF o = off THEN rgb[1]
     ELSE IF o = off + 1 THEN rgb[2]
     ELSE px[o]]

\* the three stores of one pixel: pixels[off], pixels[off+1], pixels[off+2]
PutPixel(px, off, rgb) ==
  [o \in DOMAIN px |->
     IF o = off THEN rgb[1]
     ELSE IF o = off + 1 THEN rgb[2]
     ELSE IF o = off + 2 THEN rgb[3]
     ELSE px[o]]

\* a loop body that stores pixels for the bytes of the padding rows too
PixelWritesNoSkip(i) ==
  LET row == i % RASTER_PITCH
      col == (INPUT_WIDTH - 1) - (i \div RASTER_PITCH)
  IN <<PixelOffset(row * 2, col), PixelOffset(row * 2 + 1, col)>>

\* a loop body that takes the last data rows for padding rows as well
PixelWritesSkipMore(i) ==
  LET row == i % RASTER_PITCH
      col == (INPUT_WIDTH - 1) - (i \div RASTER_PITCH)
  IN IF i % RASTER_PITCH < DATA_ROWS - PAD_ROWS
       THEN <<PixelOffset(row * 2, col), PixelOffset(row * 2 + 1, col)>>
       ELSE <<>>

\* the raster offsets of the pixels the loop body stores for input byte i:
\* pixel 1, then pixel 2, or none for a byte of a padding row
PixelWrites(i) ==
  LET row == i % RASTER_PITCH
      col == (INPUT_WIDTH - 1) - (i \div RASTER_PITCH)
  IN IF i % RASTER_PITCH < DATA_ROWS
       THEN <<PixelOffset(row * 2, col), PixelOffset(row * 2 + 1, col)>>
       ELSE <<>>

\* one pass through the body of the decode loop for input byte i
DecodeByte(px, i, in_byte, t) ==
  LET at == PixelWrites(i)
  IN IF at # <<>>
       THEN PutPixel(PutPixel(px, at[1], Palette(t, HighNibble(in_byte))),
                     at[2], Palette(t, LowNibble(in_byte)))
       ELSE px

\* the whole decode loop, from input byte i on
RECURSIVE DecodeLoop(_, _, _, _)
DecodeLoop(px, buf, t, i) ==
  IF i < SCREEN_DUMP_SIZE
    THEN DecodeLoop(DecodeByte(px, i, buf[i].v, t), buf, t, i + 1)
    ELSE px

DecodeStep ==
  /\ pc = "decode"
  /\ byte_cnt < SCREEN_DUMP_SIZE
  /\ scope_pixels' = DecodeByte(scope_pixels, byte_cnt, buffer[byte_cnt].v, theme)
  /\ byte_cnt' = byte_cnt + 1
  /\ writes' = writes \o PixelWrites(byte_cnt)
  /\ UNCHANGED <<pc, timer, theme, win, buffer, image, timeout, fd_in_set,
                 total, buffer_index, retval, branch, rxq, txq, reqs, written,
                 call, before>>

\* gdk_pixbuf_scale_simple to the window size, gtk_image_set_from_pixbuf,
\* return TRUE
Show ==
  /\ pc = "decode"
  /\ byte_cnt = SCREEN_DUMP_SIZE
  /\ image' = <<scope_pixels, win[1], win[2]>>
  /\ HandlerReturn(TRUE)
  /\ UNCHANGED <<theme, win, scope_pixels, byte_cnt, timeout, fd_in_set>>

\* ---------------------------------------------------------- other callbacks
\* a handler that repaints the raster with the new palette right away
key_eventRepaint(keyval) ==
  /\ theme' = IF keyval = GDK_KEY_space
                THEN (theme + 1) % COLOR_THEME_COUNT
                ELSE theme
  /\ scope_pixels' = DecodeLoop(scope_pixels, buffer, theme', 0)
  /\ UNCHANGED <<pc, timer, win, buffer, image, byte_cnt,
                 timeout, fd_in_set, total, buffer_index, retval, branch, rxq,
                 txq, reqs, written, call, writes, before>>

\* a handler that counts the theme up without wrapping around
key_eventNoWrap(keyval) ==
  /\ theme' = IF keyval = GDK_KEY_space
                THEN theme + 1
                ELSE theme
  /\ UNCHANGED <<pc, timer, win, buffer, scope_pixels, image, byte_cnt,
                 timeout, fd_in_set, total, buffer_index, retval, branch, rxq,
                 txq, reqs, written, call, writes, before>>

key_event(keyval) ==
  /\ MainLoopIdle
  /\ theme' = IF keyval = GDK_KEY_space
                THEN (theme + 1) % COLOR_THEME_COUNT
                ELSE theme
  /\ UNCHANGED <<pc, timer, win, buffer, scope_pixels, image, byte_cnt,
                 timeout, fd_in_set, total, buffer_index, retval, branch, rxq,
                 txq, reqs, written, call,
                 writes, before>>

on_configure(w, h) ==
  /\ MainLoopIdle
  /\ win' = <<w, h>>
  /\ UNCHANGED <<pc, timer, theme, buffer, scope_pixels, image, byte_cnt,
                 timeout, fd_in_set, total, buffer_index, retval, branch, rxq,
                 txq, reqs, written, call,
                 writes, before>>

KeyPress == \E keyval \in Keys : key_event(keyval)

Configure == \E sz \in WinSizes : on_configure(sz[1], sz[2])

\* bytes of a response that come in while the program sits in the main loop
Deliver ==
  /\ pc = "idle"
  /\ \E n \in 1..Len(txq) :
       /\ rxq' = rxq \o SubSeq(txq, 1, n)
       /\ txq' = Drop(txq, n)
  /\ UNCHANGED <<pc, timer, theme, win, buffer, scope_pixels, image, byte_cnt,
                 timeout, fd_in_set, total, buffer_index, retval, branch, reqs,
                 written, call,
                 writes, before>>

Next ==
  \/ TimerTick
  \/ WriteRequest
  \/ SelectError
  \/ SelectTimeout
  \/ SelectReadable
  \/ Read
  \/ AfterAcquire
  \/ DecodeStep
  \/ Show
  \/ KeyPress
  \/ Configure
  \/ Deliver

Spec == Init /\ [][Next]_vars

\* the steps of the handler, which the one thread of the program keeps taking
HandlerStep ==
  \/ WriteRequest
  \/ SelectError
  \/ SelectTimeout
  \/ SelectReadable
  \/ Read
  \/ AfterAcquire
  \/ DecodeStep
  \/ Show

FairSpec == Init /\ [][Next]_vars /\ WF_vars(HandlerStep)

\* ------------------------------------------------------- the decode pass alone
\* A decode pass started on any frame of a family that puts every byte value
\* at every offset, with any theme, over a raster of any previous fill.
DecodeFrame(s) ==
  [i \in 0..(SCREEN_DUMP_SIZE - 1) |->
     [v |-> (s + 17 * i) % 256, cur |-> TRUE, k |-> i]]

\* what the raster can hold when a pass starts: what gdk_pixbuf_new left
\* there, or what an earlier pass over the same frame with any theme left
PriorRasters(buf) ==
  {[o \in 0..(RasterBytes - 1) |-> f] : f \in Fills}
    \cup {DecodeLoop([o \in 0..(RasterBytes - 1) |-> 0], buf, t, 0) :
             t \in 0..(COLOR_THEME_COUNT - 1)}

DecodeInit ==
  /\ pc = "decode"
  /\ byte_cnt = 0
  /\ \E s \in 0..255 :
       /\ buffer = DecodeFrame(s)
       /\ call = [startEmpty |-> TRUE, respLen |-> SCREEN_DUMP_SIZE,
                  respSeed |-> s, ioFail |-> FALSE, changed |-> TRUE]
  /\ theme \in 0..(COLOR_THEME_COUNT - 1)
  /\ scope_pixels \in PriorRasters(buffer)
  /\ timer = TRUE
  /\ win = <<0, 0>>
  /\ image = <<>>
  /\ timeout = RX_TIMEOUT
  /\ fd_in_set = TRUE
  /\ total = SCREEN_DUMP_SIZE
  /\ buffer_index = SCREEN_DUMP_SIZE
  /\ retval = 0
  /\ branch = "exact"
  /\ rxq = <<>>
  /\ txq = <<>>
  /\ reqs = <<msg>>
  /\ written = 0..(SCREEN_DUMP_SIZE - 1)
  /\ writes = <<>>
  /\ before = scope_pixels

DecodeNext ==
  \/ DecodeStep
  \/ Show

DecodeSpec == DecodeInit /\ [][DecodeNext]_vars

\* ===================================================================== claims
Frame == 0..(SCREEN_DUMP_SIZE - 1)

\* C1: an acquisition that starts on an empty channel, whose request is
\* answered with exactly SCREEN_DUMP_SIZE bytes and whose waits all end with
\* data, returns 0 with buffer[i] the i-th byte of that response, whatever the
\* sizes of the reads.
C1_ExactFrameAccepted ==
  (/\ pc = "ret"
   /\ call.startEmpty
   /\ call.respLen = SCREEN_DUMP_SIZE
   /\ branch \notin {"timeout", "select_error"})
  => /\ retval = 0
     /\ \A i \in Frame :
          buffer[i] = [v |-> FrameByte(call.respSeed, i), cur |-> TRUE, k |-> i]

C1_Witness ==
  /\ pc = "ret"
  /\ call.startEmpty
  /\ call.respLen = SCREEN_DUMP_SIZE
  /\ retval = 0
  /\ timeout < RX_TIMEOUT

\* C2: an acquisition that starts on an empty channel and whose request is
\* answered with SCREEN_DUMP_SIZE + 1 bytes never returns 0.
C2_SurplusNeverAccepted ==
  (pc = "ret" /\ call.startEmpty /\ call.respLen = SCREEN_DUMP_SIZE + 1)
  => retval # 0

\* C3: the decode loop runs only after the acquisition of the same tick has
\* returned 0, and then every byte of buffer was written by that acquisition.
C3_DecodeOnlyFreshFullBuffer ==
  pc = "decode" => (retval = 0 /\ branch = "exact" /\ written = Frame)

C3_Witness == pc = "decode" /\ byte_cnt > 0 /\ ~call.startEmpty

\* C4: every decoded buffer is, byte for byte and in order, the response to
\* the request written in the same tick: no byte of it answers an earlier
\* request.
C4_DecodedFrameIsOneResponse ==
  pc = "decode" => \A i \in Frame : buffer[i].cur /\ buffer[i].k = i

\* C5: every call of acquire_scope_buffer returns.
C5_AcquireReturns == (pc \in AcqPcs) ~> (pc \notin AcqPcs)

\* C6: an acquisition during which write, select or read failed does not
\* return 0.
C6_IoFailureAborts == (pc = "ret" /\ call.ioFail) => retval # 0

\* C7: an acquisition calls write exactly once, with the four bytes of the
\* capture request, before anything is read; a timeout, after no byte or after
\* some, returns failure and sends nothing again.
C7_RequestWrittenOnce ==
  /\ pc = "write" => (reqs = <<>> /\ total = 0 /\ written = {})
  /\ pc \in {"select", "read", "ret", "decode"} => reqs = << <<87, 0, 0, 10>> >>
  /\ (pc = "ret" /\ branch = "timeout") => retval = 1

C7_Witness == pc = "ret" /\ branch = "timeout" /\ total > 0

\* C8: after a failed acquisition the handler returns to the main loop with
\* the raster and the displayed image as they were before the tick, and the
\* timer stays installed, always.
C8_FailureSkipsRedraw ==
  [][/\ timer'
     /\ (pc \in AcqPcs \/ (pc = "ret" /\ retval # 0))
          => (scope_pixels' = scope_pixels /\ image' = image)
     /\ (pc = "ret" /\ retval # 0) => pc' = "idle"]_vars

C8_Witness == pc = "ret" /\ retval = 1 /\ image # <<>> /\ total > 0

\* C9: a tick starts an acquisition only from the idle main loop, and the
\* theme and the window size change only there: no callback runs between the
\* start of an acquisition and the end of the decode that follows it.
C9_OneAcquisitionAtATime ==
  [][/\ pc' = "write" => pc = "idle"
     /\ (theme' # theme \/ win' # win) => (pc = "idle" /\ pc' = "idle")]_vars

C9_Witness == pc = "read" /\ total > 0 /\ theme # 0 /\ win # <<0, 0>>

\* C10: after a decode pass, for every buffer offset i on a data row r, the
\* pixel at raster row 2r, column c has the palette colour of the high nibble
\* of buffer[i] and the pixel at row 2r+1, column c that of its low nibble.
Pixel(px, off) == <<px[off], px[off + 1], px[off + 2]>>

C10_DecodeMapping ==
  (pc = "decode" /\ byte_cnt = SCREEN_DUMP_SIZE)
  => \A i \in Frame :
       LET r == i % RASTER_PITCH
           c == (INPUT_WIDTH - 1) - (i \div RASTER_PITCH)
           b == buffer[i].v
       IN r < DATA_ROWS =>
            /\ Pixel(scope_pixels, (3 * INPUT_WIDTH) * (2 * r) + 3 * c)
                 = color_themes[theme + 1][((b \div 16) % 16) + 1]
            /\ Pixel(scope_pixels, (3 * INPUT_WIDTH) * (2 * r + 1) + 3 * c)
                 = color_themes[theme + 1][(b % 16) + 1]

C10_Witness ==
  /\ pc = "decode"
  /\ byte_cnt = SCREEN_DUMP_SIZE
  /\ buffer[0].v = 18
  /\ theme = 2
  /\ Pixel(scope_pixels, 3 * (INPUT_WIDTH - 1)) = <<255, 255, 255>>
  /\ Pixel(scope_pixels, 3 * INPUT_WIDTH + 3 * (INPUT_WIDTH - 1)) = <<0, 0, 0>>

\* the bytes of the pixel triple stored at raster offset at
Triple(at) == at..(at + 2)

\* the input bytes before byte n that are not bytes of a padding row
DataBytes(n) == {i \in 0..(n - 1) : i % RASTER_PITCH < DATA_ROWS}

\* C11: a decode pass over a full buffer stores no pixel for a byte of a
\* padding row and exactly two for every other byte, so that the whole pass
\* stores 2 * SCREEN_DUMP_SIZE * DATA_ROWS / RASTER_PITCH pixel triples; no
\* pixel is stored twice, every stored byte lies inside the raster, and the
\* raster bytes no store was aimed at hold what they held before the pass.
C11_PixelWritesOfAPass ==
  pc = "decode" =>
    /\ Len(writes) = 2 * Cardinality(DataBytes(byte_cnt))
    /\ byte_cnt = SCREEN_DUMP_SIZE =>
         Len(writes) = (2 * SCREEN_DUMP_SIZE * DATA_ROWS) \div RASTER_PITCH
    /\ \A j \in 1..Len(writes) :
         /\ Triple(writes[j]) \subseteq 0..(RasterBytes - 1)
         /\ \A l \in 1..Len(writes) :
              l # j => Triple(writes[j]) \cap Triple(writes[l]) = {}
    /\ \A o \in 0..(RasterBytes - 1) :
         (\A j \in 1..Len(writes) : o \notin Triple(writes[j]))
           => scope_pixels[o] = before[o]

\* a pass over a whole frame is through, having stored into a raster that
\* held something else
C11_Witness ==
  /\ pc = "decode"
  /\ byte_cnt = SCREEN_DUMP_SIZE
  /\ Len(writes) = 2 * INPUT_WIDTH * DATA_ROWS
  /\ scope_pixels # before

\* the raster row a pixel stored at raster offset at lies in
RowOf(at) == at \div (INPUT_WIDTH * 3)

\* the last 2 * PAD_ROWS rows of the raster
BottomRows == (OUT_HEIGHT - 2 * PAD_ROWS)..(OUT_HEIGHT - 1)

\* the rows the padding bytes of a scan line stand for: the rows of the padded
\* image that lie below the raster
PaddingRows == OUT_HEIGHT..(2 * RASTER_PITCH - 1)

\* C12: a decode pass stores no pixel in the last 2 * PAD_ROWS rows of the
\* raster, and these rows hold what they held before the pass.
C12_BottomRowsNeverWritten ==
  pc = "decode" =>
    /\ \A j \in 1..Len(writes) : RowOf(writes[j]) \notin BottomRows
    /\ \A o \in 0..(RasterBytes - 1) :
         RowOf(o) \in BottomRows => scope_pixels[o] = before[o]

\* C12, amended: a decode pass stores no pixel in the padding rows, which lie
\* below the raster, and a pass that is through has stored every pixel of
\* every row of the raster, its last 2 * PAD_ROWS rows included.
C12_OnlyPaddingRowsSkipped ==
  pc = "decode" =>
    /\ \A j \in 1..Len(writes) : RowOf(writes[j]) \notin PaddingRows
    /\ byte_cnt = SCREEN_DUMP_SIZE =>
         \A r \in 0..(OUT_HEIGHT - 1), c \in 0..(INPUT_WIDTH - 1) :
           \E j \in 1..Len(writes) : writes[j] = (INPUT_WIDTH * 3 * r) + (3 * c)

\* a pass is through and a pixel of the last raster row is not what it was
C12_Witness ==
  /\ pc = "decode"
  /\ byte_cnt = SCREEN_DUMP_SIZE
  /\ \E o \in 0..(RasterBytes - 1) :
       RowOf(o) = OUT_HEIGHT - 1 /\ scope_pixels[o] # before[o]

\* the raster that the frame in buffer and the palette of theme determine:
\* the byte at raster offset o, channel ch of the pixel in row r and column c,
\* comes from the nibble of input byte i that stands for row r
FrameRaster ==
  [o \in 0..(RasterBytes - 1) |->
     LET r == o \div (INPUT_WIDTH * 3)
         c == (o % (INPUT_WIDTH * 3)) \div 3
         ch == o % 3
         i == (INPUT_WIDTH - 1 - c) * RASTER_PITCH + (r \div 2)
         n == IF r % 2 = 0 THEN (buffer[i].v \div 16) % 16 ELSE buffer[i].v % 16
     IN color_themes[theme + 1][n + 1][ch + 1]]

\* C13: the raster a decode pass leaves is a function of the raw buffer and
\* the active palette alone, whatever the raster held before the pass; and a
\* pass over a raster that already holds the decoded frame never changes it.
C13_RasterFunctionOfFrameAndPalette ==
  pc = "decode" =>
    /\ byte_cnt = SCREEN_DUMP_SIZE => scope_pixels = FrameRaster
    /\ before = FrameRaster => scope_pixels = before

\* a second pass over the same frame with the same palette is through
C13_Witness ==
  /\ pc = "decode"
  /\ byte_cnt = SCREEN_DUMP_SIZE
  /\ before = FrameRaster
  /\ \E o \in DOMAIN before : before[o] # before[0]

\* C14: a palette switch changes nothing but the theme index; the raster and
\* the raw buffer then stay as they are until the next successful decode, so
\* the raster changes only in a pass that follows a successful acquisition and
\* an acquisition that fails has changed no byte of the buffer; and the theme
\* index does not change while a decode pass is under way.
C14_SwitchUntilSuccessfulDecode ==
  [][/\ theme' # theme =>
          UNCHANGED <<pc, timer, win, buffer, scope_pixels, image, byte_cnt,
                      timeout, fd_in_set, total, buffer_index, retval, branch,
                      rxq, txq, reqs, written, call, writes, before>>
     /\ scope_pixels' # scope_pixels => pc = "decode" /\ retval = 0
     /\ (pc' = "ret" /\ retval' # 0) => ~call'.changed
     /\ pc = "decode" => theme' = theme]_vars

\* C14, amended: a palette switch changes nothing but the theme index; the
\* raster then stays as it is until the next successful decode, and the raw
\* buffer until the read loop of the next acquisition, successful or not,
\* copies received bytes into it; and the theme index does not change while a
\* decode pass is under way.
C14_SwitchChangesOnlyTheme ==
  [][/\ theme' # theme =>
          UNCHANGED <<pc, timer, win, buffer, scope_pixels, image, byte_cnt,
                      timeout, fd_in_set, total, buffer_index, retval, branch,
                      rxq, txq, reqs, written, call, writes, before>>
     /\ scope_pixels' # scope_pixels => pc = "decode" /\ retval = 0
     /\ (\E i \in DOMAIN buffer : buffer'[i].v # buffer[i].v) => pc = "read"
     /\ pc = "decode" => theme' = theme]_vars

\* the palette has been switched and the raster still shows the frame in the
\* colours of the theme before
C14_Witness ==
  /\ pc = "idle"
  /\ theme = 1
  /\ LET n == (buffer[(INPUT_WIDTH - 1) * RASTER_PITCH].v \div 16) % 16
     IN /\ Pixel(scope_pixels, 0) = color_themes[1][n + 1]
        /\ Pixel(scope_pixels, 0) # color_themes[2][n + 1]

\* C15: every select() of the read loop, the first and each one after a
\* chunk was read, is given the full timeout of RX_TIMEOUT, never what earlier
\* waits of the same acquisition have left of it.
C15_EveryWaitHasFullTimeout == pc = "select" => timeout = RX_TIMEOUT

\* C16: all through the read loop the write position is the number of bytes
\* copied so far, which is the running total as long as that has not passed
\* SCREEN_DUMP_SIZE, and never more than SCREEN_DUMP_SIZE; every byte a memcpy
\* stored lies inside buffer; and a read that takes the running total past
\* SCREEN_DUMP_SIZE copies nothing of its chunk.
C16_WritePositionInsideBuffer ==
  /\ [](pc \in {"select", "read", "ret"} =>
         /\ buffer_index = Cardinality(written)
         /\ written = 0..(buffer_index - 1)
         /\ buffer_index <= SCREEN_DUMP_SIZE
         /\ written \subseteq 0..(SCREEN_DUMP_SIZE - 1)
         /\ total <= SCREEN_DUMP_SIZE => buffer_index = total)
  /\ [][(pc = "read" /\ total' > SCREEN_DUMP_SIZE) =>
          /\ buffer' = buffer
          /\ buffer_index' = buffer_index
          /\ written' = written]_vars

\* a chunk whose first part would still have fitted was not copied
C16_Witness ==
  /\ pc = "ret"
  /\ branch = "overflow"
  /\ total > SCREEN_DUMP_SIZE
  /\ 0 < buffer_index
  /\ buffer_index < SCREEN_DUMP_SIZE

\* C17: the theme index is always one of 0, 1, 2, so that color_themes[theme]
\* is one of the three tables dark, light, mono of 16 entries; a press of the
\* space key takes it from 0 to 1, from 1 to 2 and from 2 to 0, a press of
\* any other key leaves it as it is, and so does every step of a timer tick.
C17_ThemeCyclesThroughThree ==
  /\ [](/\ theme \in {0, 1, 2}
        /\ color_themes[theme + 1] \in {colors_dark, colors_light, colors_mono}
        /\ Len(color_themes[theme + 1]) = 16)
  /\ [][/\ \A keyval \in Keys :
            key_event(keyval) =>
              theme' = IF keyval = 32 THEN <<1, 2, 0>>[theme + 1] ELSE theme
        /\ (pc # "idle" \/ pc' # "idle") => theme' = theme
        /\ theme' # theme => theme' = <<1, 2, 0>>[theme + 1]]_vars

\* the third press of the space key has brought the theme back to 0 while
\* the raster shows a frame decoded with the mono palette
C17_Witness ==
  /\ pc = "idle"
  /\ theme = 0
  /\ scope_pixels # [o \in 0..(RasterBytes - 1) |-> 0]
  /\ \A o \in 0..(RasterBytes - 1) : scope_pixels[o] \in {0, 255}
  /\ \E o \in 0..(RasterBytes - 1) : scope_pixels[o] = 255

====
